---- MODULE Spec2Model ----
(***************************************************************************)
(* Subtitle extractor plugin: the /process and /configure handlers, the    *)
(* run started by process(), the external tool invocations made by         *)
(* extractSubtitle() and the metadata store written through addToSet.      *)
(*                                                                         *)
(* JavaScript runs one handler at a time up to its next await: `active`    *)
(* names the run whose synchronous block is executing; event handlers      *)
(* (requests, close/error/timeout events, settled fetches) are delivered   *)
(* only when no block is executing.  The external tool is a separate       *)
(* process: its writes and its exit interleave with everything.            *)
(***************************************************************************)
EXTENDS Integers, Sequences, FiniteSets, TLC

\* ------------------------------------------------------------------ bounds
MaxRuns == 2
MaxStreams == 2
MaxConfigures == 1
\* the requests accepted are bounded by what their runs have to do: the number
\* of started runs times the number of streams each has to process
MaxWork == 2
\* the runs that may be in progress together once /configure has been called
MaxOverlapConfigured == 1

\* ------------------------------------------------------- program constants
\* size > 10 in the close handler
SizeThreshold == 10
\* for (let i = 0; i < 20; i++) in the fallback scan
FallbackCap == 20

Runs == 1..MaxRuns

UNSUPPORTED_SUBTITLE_CODECS ==
    {"hdmv_pgs_subtitle", "pgssub", "dvd_subtitle", "dvdsub",
     "dvb_subtitle", "dvbsub", "xsub"}

\* the keys of CODEC_EXTENSION_MAP (the map is never read by process())
CODEC_EXTENSION_MAP ==
    {"subrip", "srt", "ass", "ssa", "webvtt", "mov_text", "text"}

Formats == {"srt", "vtt"}
\* the bodies of the /configure requests
ConfigInputs ==
    { [forceRecompute |-> TRUE, outputFormat |-> "srt"],
      [forceRecompute |-> FALSE, outputFormat |-> "vtt"] }
NoLang == ""
Languages == {"eng"}

\* `.${sub.index}` for the indices the model reaches
IndexStr(i) ==
    CASE i = 0 -> "0" [] i = 1 -> "1" [] i = 2 -> "2" [] i = 3 -> "3"
      [] OTHER -> "4"

\* ------------------------------------------------------------ input data
\* entries of the structured existingMeta.streams list
\* (codec_name "" is a missing codec_name, language "" a missing tag)
RawEntries ==
    { [codec_type |-> "subtitle", codec_name |-> "subrip", language |-> "eng"],
      [codec_type |-> "subtitle", codec_name |-> "hdmv_pgs_subtitle", language |-> NoLang],
      [codec_type |-> "subtitle", codec_name |-> "", language |-> NoLang] }

\* subtitle_<i>_codec / subtitle_<i>_language fields, position j holds index j-1
\* (codec "" is a missing field)
FieldEntries ==
    { [codec |-> "subrip", language |-> "eng"],
      [codec |-> "", language |-> NoLang] }

SeqsUpTo(S, n) == UNION { [1..k -> S] : k \in 0..n }

\* the individually keyed fields of a bag that has some: the last index has a codec
KeyedFields == { g \in [1..MaxStreams -> FieldEntries] : g[MaxStreams].codec # "" }

\* the metadata bags of the video: a structured list, or individually keyed
\* fields, without a parsable structured list or beside one that parses to
\* a list without entries
VideoMetas ==
    { [fileType |-> ft, hasStreams |-> TRUE, streams |-> s, fields |-> << >>] :
        ft \in {"video", "other"}, s \in SeqsUpTo(RawEntries, MaxStreams) }
    \cup
    { [fileType |-> "video", hasStreams |-> h, streams |-> << >>, fields |-> f] :
        h \in BOOLEAN, f \in KeyedFields }

\* ------------------------------------------------------- pure functions
\* the structured branch of parseSubtitleStreams: subtitle entries only,
\* re-indexed by subtitleIndex, codec_name || 'unknown'
RECURSIVE ParseStructured(_, _, _)
ParseStructured(all, k, acc) ==
    IF k > Len(all) THEN acc
    ELSE IF all[k].codec_type = "subtitle"
         THEN ParseStructured(all, k + 1,
                Append(acc, [index |-> Len(acc),
                             codec |-> IF all[k].codec_name # "" THEN all[k].codec_name
                                       ELSE "unknown",
                             language |-> all[k].language]))
         ELSE ParseStructured(all, k + 1, acc)

\* the fallback branch: for i in 0..19, push when subtitle_<i>_codec is set
RECURSIVE ParseFields(_, _, _)
ParseFields(fields, i, acc) ==
    IF i >= FallbackCap \/ i >= Len(fields) THEN acc
    ELSE IF fields[i + 1].codec # ""
         THEN ParseFields(fields, i + 1,
                Append(acc, [index |-> i, codec |-> fields[i + 1].codec,
                             language |-> fields[i + 1].language]))
         ELSE ParseFields(fields, i + 1, acc)

parseSubtitleStreams(meta) ==
    LET structured == IF meta.hasStreams THEN ParseStructured(meta.streams, 1, << >>)
                      ELSE << >>
    IN  IF Len(structured) = 0 THEN ParseFields(meta.fields, 0, << >>)
        ELSE structured

\* s => !UNSUPPORTED_SUBTITLE_CODECS.has(s.codec)
IsTextCodecPgsMissing(codec) ==
    codec \notin (UNSUPPORTED_SUBTITLE_CODECS \ {"hdmv_pgs_subtitle"})
IsTextCodec(codec) == codec \notin UNSUPPORTED_SUBTITLE_CODECS

textSubtitlesOf(subtitleStreams) ==
    SelectSeq(subtitleStreams, LAMBDA s : IsTextCodec(s.codec))

\* langSuffix and ext of outputFilename; title, year and the video's cid are
\* the same for every run of the one video
OutputPath(sub, ext) ==
    [suffix |-> IF sub.language # NoLang THEN sub.language ELSE IndexStr(sub.index),
     ext |-> ext]

\* outputCodec in extractSubtitle
OutputCodec(format) ==
    IF format = "vtt" THEN "webvtt" ELSE IF format = "ass" THEN "ass" ELSE "srt"

\* ------------------------------------------------------------ file contents
\* what the tool writes for subtitle stream idx with output codec c: a file
\* still being written (or abandoned), a finished file of at most the
\* threshold, a finished file above it
NoFile == [kind |-> "none", idx |-> 0, codec |-> "", size |-> 0]
PartialFile(idx, c) == [kind |-> "partial", idx |-> idx, codec |-> c, size |-> SizeThreshold + 1]
TinyFile(idx, c) == [kind |-> "tiny", idx |-> idx, codec |-> c, size |-> SizeThreshold]
GoodFile(idx, c) == [kind |-> "good", idx |-> idx, codec |-> c, size |-> 2 * SizeThreshold]

\* computeMidHash256Sync(outputPath): a function of the file's bytes alone
SubtitleCid(content) == [cidOf |-> content]

Suffixes == Languages \cup { IndexStr(i) : i \in 0..(MaxStreams - 1) }
Paths == [suffix : Suffixes, ext : Formats]

\* ------------------------------------------------------------------ state
VARIABLES
    forceRecompute,   \* let forceRecompute
    outputFormat,     \* let outputFormat
    video,            \* existingMeta of the video the requests are about
    fs,               \* the files under PLUGIN_OUTPUT_PATH
    store,            \* the video's record in the metadata store
    nConfigured,      \* the /configure requests handled so far
    run,              \* one record per process() call
    inv,              \* inv[r][k]: the extractSubtitle call of run r for textSubtitles[k]
    active,           \* the run whose synchronous block is executing ({} if none)
    call              \* a call of one of the pure functions, traced by itself

vars == <<forceRecompute, outputFormat, nConfigured, video, fs, store, run, inv, active, call>>

IdleRun ==
    [pc |-> "idle", extracted |-> FALSE, i |-> 0,
     extractedCids |-> << >>, extractedLanguages |-> << >>,
     callbacks |-> 0, status |-> "none", reason |-> "", inCatch |-> FALSE,
     \* history of the run, read by the properties only
     defect |-> FALSE, before |-> {}, force0 |-> FALSE, fate |-> << >>, seen |-> {},
     forceSeen |-> {}, fmtSeen |-> {}, addCalls |-> 0, fsTouched |-> FALSE]

NoInv ==
    [st |-> "none", code |-> 0, settled |-> FALSE,
     result |-> FALSE, by |-> "", ext |-> ""]

TextSubs == textSubtitlesOf(parseSubtitleStreams(video))

\* no pure function is being traced
NoCall == [fn |-> ""]

Init ==
    /\ forceRecompute = FALSE
    /\ outputFormat = "srt"
    /\ nConfigured = 0
    /\ video \in VideoMetas
    /\ fs = [p \in Paths |-> NoFile]
    /\ store = [extractedSubtitles |-> {}, subtitleLanguages |-> {}]
    /\ run = [r \in Runs |-> IdleRun]
    /\ inv = [r \in Runs |-> [k \in 1..MaxStreams |-> NoInv]]
    /\ active = {}
    /\ call = NoCall

\* the runs that process() has started and not ended
InProgress == { r \in Runs : run[r].pc \notin {"idle", "rejected", "done"} }

\* --------------------------------------------------------------- /configure
\* configure(config): forceRecompute = config.forceRecompute === true,
\* outputFormat = config.outputFormat || 'srt'
Configure ==
    /\ active = {}
    /\ nConfigured < MaxConfigures
    /\ Cardinality(InProgress) <= MaxOverlapConfigured
    /\ nConfigured' = nConfigured + 1
    /\ \E config \in ConfigInputs :
         /\ forceRecompute' = (config.forceRecompute = TRUE)
         /\ outputFormat' = IF config.outputFormat # "" THEN config.outputFormat ELSE "srt"
    /\ UNCHANGED <<video, call, fs, store, run, inv, active>>

\* ----------------------------------------------------------------- /process
\* a request is handled when no block is executing; runs take the next free slot
Arrives(r) ==
    /\ active = {}
    /\ run[r].pc = "idle"
    /\ \A q \in Runs : q < r => run[q].pc # "idle"
    /\ r * Len(TextSubs) <= MaxWork
    /\ nConfigured > 0 => Cardinality(InProgress) < MaxOverlapConfigured

\* the run record at the start of process(), for a request whose existingMeta
\* has (ex) or has not a truthy extractedSubtitles
Started(r, ex) ==
    [run[r] EXCEPT !.extracted = ex,
                   !.force0 = forceRecompute,
                   !.before = { q \in Runs : run[q].pc = "done" }]

\* sendCallback(payload) is called: the handler's closure starts fetch(callbackUrl)
SendCallback(rr, status, reason) ==
    [rr EXCEPT !.callbacks = @ + 1, !.status = status, !.reason = reason,
               !.pc = "callback"]

\* !taskId || !cid || !filePath || !callbackUrl || !metaCoreUrl
Reject(r) ==
    /\ Arrives(r)
    /\ run' = [run EXCEPT ![r].pc = "rejected"]
    /\ UNCHANGED <<forceRecompute, outputFormat, nConfigured, video, call, fs, store, inv, active>>

\* existingMeta?.fileType !== 'video'
NotVideo(meta) == meta.fileType # "video"

\* existingMeta?.extractedSubtitles && !forceRecompute
AlreadyExtractedNegationDropped(ex, force) == ex /\ force
AlreadyExtracted(ex, force) == ex /\ ~force

SkipNotVideo(r) ==
    /\ Arrives(r)
    /\ \E ex \in BOOLEAN :
         /\ NotVideo(video)
         /\ run' = [run EXCEPT ![r] =
                      SendCallback(Started(r, ex), "skipped", "Not a video file")]
    /\ UNCHANGED <<forceRecompute, outputFormat, nConfigured, video, call, fs, store, inv, active>>

SkipAlreadyExtracted(r) ==
    /\ Arrives(r)
    /\ \E ex \in BOOLEAN :
         /\ ~NotVideo(video)
         /\ AlreadyExtracted(ex, forceRecompute)
         /\ run' = [run EXCEPT ![r] =
                      SendCallback(Started(r, ex),
                                   "skipped", "Subtitles already extracted")]
    /\ UNCHANGED <<forceRecompute, outputFormat, nConfigured, video, call, fs, store, inv, active>>

\* the request passes both checks of lines 392-412
PassesChecks(ex) ==
    /\ ~NotVideo(video)
    /\ ~AlreadyExtracted(ex, forceRecompute)

SkipNoStreams(r) ==
    /\ Arrives(r)
    /\ \E ex \in BOOLEAN :
         /\ PassesChecks(ex)
         /\ Len(parseSubtitleStreams(video)) = 0
         /\ run' = [run EXCEPT ![r] =
                      SendCallback(Started(r, ex),
                                   "skipped", "No subtitle streams found")]
    /\ UNCHANGED <<forceRecompute, outputFormat, nConfigured, video, call, fs, store, inv, active>>

SkipImageOnly(r) ==
    /\ Arrives(r)
    /\ \E ex \in BOOLEAN :
         /\ PassesChecks(ex)
         /\ Len(parseSubtitleStreams(video)) # 0
         /\ Len(TextSubs) = 0
         /\ run' = [run EXCEPT ![r] =
                      SendCallback(Started(r, ex),
                                   "skipped",
                                   "Only image-based subtitles (cannot convert to text)")]
    /\ UNCHANGED <<forceRecompute, outputFormat, nConfigured, video, call, fs, store, inv, active>>

\* mkdirSync or sanitizeFilename throws before the loop: the catch block reports
RunDefect(r) ==
    /\ Arrives(r)
    /\ \E ex \in BOOLEAN :
         /\ PassesChecks(ex)
         /\ Len(TextSubs) # 0
         /\ run' = [run EXCEPT ![r] =
                      SendCallback([Started(r, ex) EXCEPT !.defect = TRUE,
                                                          !.inCatch = TRUE],
                                   "failed", "error")]
    /\ UNCHANGED <<forceRecompute, outputFormat, nConfigured, video, call, fs, store, inv, active>>

\* the run reaches the per-stream loop and goes on executing
BeginLoop(r) ==
    /\ Arrives(r)
    /\ \E ex \in BOOLEAN :
         /\ PassesChecks(ex)
         /\ Len(TextSubs) # 0
         /\ run' = [run EXCEPT ![r] =
                      [Started(r, ex) EXCEPT !.pc = "loop", !.i = 1,
                                             !.fate = [k \in 1..Len(TextSubs) |-> "pending"]]]
    /\ active' = {r}
    /\ UNCHANGED <<forceRecompute, outputFormat, nConfigured, video, call, fs, store, inv>>

\* ------------------------------------------------------ the per-stream loop
Sub(r) == TextSubs[run[r].i]
PathOf(k, ext) == OutputPath(TextSubs[k], ext)

\* existsSync(outputPath) && !forceRecompute
ReuseExistingNever(exists, force) == FALSE
ReuseIgnoresExistence(exists, force) == ~force
ReuseIgnoresForce(exists, force) == exists
ReuseExisting(exists, force) == exists /\ ~force

\* the loop variable after the iteration for stream k of n ended (ok or not)
NextStreamBreakOnFailure(k, n, ok) == IF ok THEN k + 1 ELSE n + 1
NextStream(k, n, ok) == k + 1

\* extractedLanguages.push unless included
PushLanguage(langs, sub) ==
    IF sub.language # NoLang /\ \A j \in 1..Len(langs) : langs[j] # sub.language
    THEN Append(langs, sub.language) ELSE langs

\* one iteration ends: the history notes what became of the stream
EndIteration(rr, what, ok) ==
    [rr EXCEPT !.fate[rr.i] = what,
               !.i = NextStream(rr.i, Len(TextSubs), ok),
               !.pc = "loop"]

\* the file is there and forceRecompute is off: its CID is computed (or
\* computeMidHash256Sync throws and is caught), the tool is not run
LoopReuse(r) ==
    /\ active = {r}
    /\ run[r].pc = "loop"
    /\ run[r].i <= Len(TextSubs)
    /\ LET p == PathOf(run[r].i, outputFormat)
           seenRun == [run[r] EXCEPT !.seen = IF fs[p] # NoFile THEN @ \cup {run[r].i} ELSE @,
                                     !.forceSeen = @ \cup {forceRecompute},
                                     !.fmtSeen = @ \cup {outputFormat}]
       IN  /\ ReuseExisting(fs[p] # NoFile, forceRecompute)
           /\ \E cidOk \in BOOLEAN :
                run' = [run EXCEPT ![r] =
                   IF cidOk
                   THEN EndIteration(
                          [seenRun EXCEPT
                             !.extractedCids = Append(@, SubtitleCid(fs[p])),
                             !.extractedLanguages = PushLanguage(@, Sub(r))],
                          "reused", TRUE)
                   ELSE EndIteration(seenRun, "reuse_cid_failed", FALSE)]
    /\ UNCHANGED <<forceRecompute, outputFormat, nConfigured, video, call, fs, store, inv, active>>

\* extractSubtitle(): spawn('ffmpeg', ...), the handlers and the timer are set,
\* the run awaits the promise
LoopSpawn(r) ==
    /\ active = {r}
    /\ run[r].pc = "loop"
    /\ run[r].i <= Len(TextSubs)
    /\ LET p == PathOf(run[r].i, outputFormat)
       IN  /\ ~ReuseExisting(fs[p] # NoFile, forceRecompute)
           /\ run' = [run EXCEPT ![r] =
                  [@ EXCEPT !.pc = "await_extract",
                            !.seen = IF fs[p] # NoFile THEN @ \cup {run[r].i} ELSE @,
                            !.forceSeen = @ \cup {forceRecompute},
                            !.fmtSeen = @ \cup {outputFormat}]]
           /\ \E spawned \in BOOLEAN :
                inv' = [inv EXCEPT ![r][run[r].i] =
                   [NoInv EXCEPT !.st = IF spawned THEN "running" ELSE "spawnfail",
                                 !.ext = outputFormat]]
    /\ active' = {}
    /\ UNCHANGED <<forceRecompute, outputFormat, nConfigured, video, call, fs, store>>

\* status of the run that went through the loop
FinalStatusFailedIfAnyFailed(nCids, nStreams) ==
    IF nCids < nStreams THEN "failed" ELSE "completed"
FinalStatus(nCids, nStreams) == "completed"

LoopEnd(r) ==
    /\ active = {r}
    /\ run[r].pc = "loop"
    /\ run[r].i > Len(TextSubs)
    /\ run' = [run EXCEPT ![r] =
          SendCallback(@, FinalStatus(Len(run[r].extractedCids), Len(TextSubs)), "")]
    /\ active' = {}
    /\ UNCHANGED <<forceRecompute, outputFormat, nConfigured, video, call, fs, store, inv>>

\* ------------------------------------------------------- the external tool
ToolPath(r, k) == PathOf(k, inv[r][k].ext)
ToolCodec(r, k) == OutputCodec(inv[r][k].ext)

\* the tool (started with -y) creates or truncates its output and writes to it
FfmpegWrite(r, k) ==
    /\ inv[r][k].st = "running"
    /\ LET c == PartialFile(TextSubs[k].index, ToolCodec(r, k))
       IN  /\ fs[ToolPath(r, k)] # c
           /\ fs' = [fs EXCEPT ![ToolPath(r, k)] = c]
    /\ run' = [run EXCEPT ![r].fsTouched = TRUE]
    /\ UNCHANGED <<forceRecompute, outputFormat, nConfigured, video, call, store, inv, active>>

\* the tool exits: with code 0 its output is finished (a stream without cues
\* gives a file of no more than the threshold), with another code the output
\* stays as it is
FfmpegExit(r, k) ==
    /\ inv[r][k].st = "running"
    /\ \E code \in {0, 1}, empty \in BOOLEAN :
         /\ code = 1 => ~empty
         /\ inv' = [inv EXCEPT ![r][k].st = "exited", ![r][k].code = code]
         /\ IF code = 0
            THEN /\ fs' = [fs EXCEPT ![ToolPath(r, k)] =
                       IF empty THEN TinyFile(TextSubs[k].index, ToolCodec(r, k))
                       ELSE GoodFile(TextSubs[k].index, ToolCodec(r, k))]
                 /\ run' = [run EXCEPT ![r].fsTouched = TRUE]
            ELSE UNCHANGED <<fs, run>>
    /\ UNCHANGED <<forceRecompute, outputFormat, nConfigured, video, call, store, active>>

\* ---------------------------------------------- the promise of extractSubtitle
\* resolve(value): only the first call settles the promise
Resolve(iv, value, by) ==
    IF iv.settled THEN iv
    ELSE [iv EXCEPT !.settled = TRUE, !.result = value, !.by = by]

\* the run awaiting the promise resumes when a handler settles it
Resumes(r, k, newInv) ==
    /\ inv' = newInv
    /\ IF ~inv[r][k].settled /\ newInv[r][k].settled
       THEN /\ run' = [run EXCEPT ![r].pc = "resumed"]
            /\ active' = {r}
       ELSE UNCHANGED <<run, active>>

\* code === 0 && existsSync(outputPath), then size > 10
Accepted(code, content) ==
    code = 0 /\ content # NoFile /\ content.size > SizeThreshold

\* unlinkSync(outputPath) when the tool gave a file that is there and too small
Discards(code, content) ==
    code = 0 /\ content # NoFile /\ ~(content.size > SizeThreshold)

\* ffmpeg.on('close', code => ...)
OnClose(r, k) ==
    /\ active = {}
    /\ inv[r][k].st \in {"exited", "killed"}
    /\ LET code == IF inv[r][k].st = "exited" THEN inv[r][k].code ELSE 1
           p == ToolPath(r, k)
           ok == Accepted(code, fs[p])
           closed == [inv[r][k] EXCEPT !.st = "closed", !.code = 0]
       IN  /\ IF Discards(code, fs[p])
              THEN /\ fs' = [fs EXCEPT ![p] = NoFile]
                   /\ Resumes(r, k, [inv EXCEPT ![r][k] = Resolve(closed, FALSE, "undersized")])
              ELSE /\ fs' = fs
                   /\ Resumes(r, k, [inv EXCEPT ![r][k] =
                          Resolve(closed, ok, IF ok THEN "accepted" ELSE "exit")])
    /\ UNCHANGED <<forceRecompute, outputFormat, nConfigured, video, call, store>>

\* ffmpeg.on('error', err => resolve(false)): the tool could not be started;
\* the close event follows with a code that is not 0
OnError(r, k) ==
    /\ active = {}
    /\ inv[r][k].st = "spawnfail"
    /\ Resumes(r, k, [inv EXCEPT ![r][k] =
           Resolve([inv[r][k] EXCEPT !.st = "exited", !.code = 1], FALSE, "error")])
    /\ UNCHANGED <<forceRecompute, outputFormat, nConfigured, video, call, fs, store>>

\* the child process the timer of invocation (r, k) kills: its own
KillTargetCurrent(r, k) == <<r, IF run[r].i \in 1..MaxStreams THEN run[r].i ELSE k>>
KillTarget(r, k) == <<r, k>>

\* setTimeout(() => { ffmpeg.kill('SIGKILL'); resolve(false); }, 120000): the
\* timer is set by every invocation and never cleared, so it fires whether or
\* not the invocation has ended.  Fired after the promise has settled and the
\* child has exited, neither kill nor resolve does anything: the step is left
\* out where the timer's own invocation has nothing left for it to change
OnTimeout(r, k) ==
    /\ active = {}
    /\ inv[r][k].st # "none"
    /\ inv[KillTarget(r, k)[1]][KillTarget(r, k)[2]].st = "running" \/ ~inv[r][k].settled
    /\ LET t == KillTarget(r, k)
           fired == [inv EXCEPT ![r][k] = Resolve(inv[r][k], FALSE, "timeout")]
           killed == IF fired[t[1]][t[2]].st = "running"
                     THEN [fired EXCEPT ![t[1]][t[2]].st = "killed"]
                     ELSE fired
       IN  Resumes(r, k, killed)
    /\ UNCHANGED <<forceRecompute, outputFormat, nConfigured, video, call, fs, store>>

\* ------------------------------------------------ after extractSubtitle()
\* extracted is false: nothing more for this stream
ResumeFailed(r) ==
    /\ active = {r}
    /\ run[r].pc = "resumed"
    /\ ~inv[r][run[r].i].result
    /\ run' = [run EXCEPT ![r] = EndIteration(@, "extract_failed", FALSE)]
    /\ UNCHANGED <<forceRecompute, outputFormat, nConfigured, video, call, fs, store, inv, active>>

\* extracted is true: the CID is computed and pushed, addToSet(cid,
\* 'extractedSubtitles', subtitleCid) is called and awaited; a throw of
\* computeMidHash256Sync is caught
ResumeExtracted(r) ==
    /\ run[r].pc = "resumed"
    /\ active = {r}
    /\ inv[r][run[r].i].result
    /\ \E cidOk \in BOOLEAN :
         IF cidOk
         THEN /\ run' = [run EXCEPT ![r] =
                   [@ EXCEPT !.extractedCids =
                                Append(@, SubtitleCid(fs[ToolPath(r, run[r].i)])),
                             !.extractedLanguages = PushLanguage(@, Sub(r)),
                             !.addCalls = @ + 1,
                             !.pc = "await_add1"]]
              /\ active' = {}
         ELSE /\ run' = [run EXCEPT ![r] = EndIteration(@, "cid_failed", FALSE)]
              /\ active' = active
    /\ UNCHANGED <<forceRecompute, outputFormat, nConfigured, video, call, fs, store, inv>>

\* MetaCoreClient.addToSet: the value joins the set of the field
AddToSet(st, field, value) == [st EXCEPT ![field] = @ \cup {value}]

\* the request process() makes to the store for a field: metaCore.addToSet,
\* the only method of the client it calls
StoreCallOverwrites(st, field, value) == [st EXCEPT ![field] = {value}]
StoreCall(st, field, value) == AddToSet(st, field, value)

\* the first addToSet settles: on success the language, if any, is added by a
\* second awaited call; a rejection is caught and ends the iteration
AddSettle1(r) ==
    /\ active = {}
    /\ run[r].pc = "await_add1"
    /\ \E ok \in BOOLEAN :
         IF ok
         THEN /\ store' = StoreCall(store, "extractedSubtitles",
                                    run[r].extractedCids[Len(run[r].extractedCids)])
              /\ IF Sub(r).language # NoLang
                 THEN /\ run' = [run EXCEPT ![r].pc = "await_add2",
                                            ![r].addCalls = @ + 1]
                      /\ active' = {}
                 ELSE /\ run' = [run EXCEPT ![r] = EndIteration(@, "linked", TRUE)]
                      /\ active' = {r}
         ELSE /\ store' = store
              /\ run' = [run EXCEPT ![r] = EndIteration(@, "link_failed", FALSE)]
              /\ active' = {r}
    /\ UNCHANGED <<forceRecompute, outputFormat, nConfigured, video, call, fs, inv>>

\* the second addToSet (subtitleLanguages) settles
AddSettle2(r) ==
    /\ active = {}
    /\ run[r].pc = "await_add2"
    /\ \E ok \in BOOLEAN :
         IF ok
         THEN /\ store' = StoreCall(store, "subtitleLanguages", Sub(r).language)
              /\ run' = [run EXCEPT ![r] = EndIteration(@, "linked", TRUE)]
         ELSE /\ store' = store
              /\ run' = [run EXCEPT ![r] = EndIteration(@, "link_failed", FALSE)]
    /\ active' = {r}
    /\ UNCHANGED <<forceRecompute, outputFormat, nConfigured, video, call, fs, inv>>

\* ------------------------------------------------------------ the callback
\* the closure given to process(): fetch in try/catch, a failed delivery is
\* logged and the closure's promise still fulfils
CallbackRejectsUncaught(ok) == ~ok
CallbackRejects(ok) == FALSE

\* fetch(callbackUrl) settles and process() goes on: after a send made in the
\* try block a rejection enters the catch block, which sends 'failed'; in
\* every other case process() ends
CallbackSettle(r) ==
    /\ active = {}
    /\ run[r].pc = "callback"
    /\ \E ok \in BOOLEAN :
         IF CallbackRejects(ok) /\ ~run[r].inCatch
         THEN run' = [run EXCEPT ![r] =
                  SendCallback([@ EXCEPT !.inCatch = TRUE, !.defect = TRUE],
                               "failed", "error")]
         ELSE run' = [run EXCEPT ![r].pc = "done"]
    /\ UNCHANGED <<forceRecompute, outputFormat, nConfigured, video, call, fs, store, inv, active>>

\* ------------------------------------------------------------ specification
RunStep(r) ==
    \/ LoopReuse(r) \/ LoopSpawn(r) \/ LoopEnd(r)
    \/ ResumeFailed(r) \/ ResumeExtracted(r)

Next ==
    \/ Configure
    \/ \E r \in Runs :
         \/ Reject(r) \/ SkipNotVideo(r) \/ SkipAlreadyExtracted(r)
         \/ SkipNoStreams(r) \/ SkipImageOnly(r) \/ RunDefect(r) \/ BeginLoop(r)
         \/ LoopReuse(r) \/ LoopSpawn(r) \/ LoopEnd(r)
         \/ ResumeFailed(r) \/ ResumeExtracted(r)
         \/ AddSettle1(r) \/ AddSettle2(r) \/ CallbackSettle(r)
         \/ \E k \in 1..MaxStreams :
              \/ FfmpegWrite(r, k) \/ FfmpegExit(r, k)
              \/ OnClose(r, k) \/ OnError(r, k) \/ OnTimeout(r, k)

Spec == Init /\ [][Next]_vars

\* the timers fire, the event loop runs the handlers and the blocks of the
\* runs, and the requests to the metadata store and to the callback URL settle
Fairness ==
    \A r \in Runs :
        /\ WF_vars(RunStep(r))
        /\ WF_vars(AddSettle1(r))
        /\ WF_vars(AddSettle2(r))
        /\ WF_vars(CallbackSettle(r))
        /\ \A k \in 1..MaxStreams : WF_vars(OnTimeout(r, k))

FairSpec == Spec /\ Fairness

\* ------------------------------------------------------------- properties
IsStarted(r) == run[r].pc \notin {"idle", "rejected"}
IsDone(r) == run[r].pc = "done"
InLoopPhase(r) == run[r].i >= 1
ToolCalls(r) == { k \in 1..MaxStreams : inv[r][k].st # "none" }
Parsed == parseSubtitleStreams(video)
Statuses == {"skipped", "completed", "failed"}
FailedFates == {"extract_failed", "cid_failed", "link_failed", "reuse_cid_failed"}
SeqRange(q) == { q[j] : j \in 1..Len(q) }

\* C1 (state part): sendCallback has been called at most once by a run, with a
\* status of skipped, completed or failed, and exactly once when process() ends
C1_AtMostOnce ==
    \A r \in Runs :
        /\ run[r].callbacks <= 1
        /\ run[r].callbacks = 0 => run[r].status = "none"
        /\ run[r].callbacks = 1 => run[r].status \in Statuses
        /\ IsDone(r) => run[r].callbacks = 1

\* C1: every run started by process() calls sendCallback exactly once, with a
\* status of skipped, completed or failed: never twice, and eventually once,
\* whatever the branch taken, whatever fails for a stream, for the run, or
\* for the delivery of the callback
C1_ExactlyOneCallback ==
    /\ []C1_AtMostOnce
    /\ \A r \in Runs : IsStarted(r) ~> (run[r].callbacks = 1 /\ IsDone(r))

\* a run that went through the loop with a failed stream has ended, with
\* exactly one callback
C1_Witness ==
    \E r \in Runs :
        /\ IsDone(r)
        /\ run[r].callbacks = 1
        /\ run[r].status = "completed"
        /\ \E k \in 1..Len(run[r].fate) : run[r].fate[k] = "link_failed"

\* C2: a run for a source that is not a video, or whose metadata records
\* extractedSubtitles while forceRecompute is false when the request is
\* handled, is reported skipped with a reason; the run never invokes the tool,
\* none of its doing creates, changes or deletes a file of the output
\* directory, and it issues no addToSet
C2_SkipLeavesNoTrace ==
    \A r \in Runs :
        (IsStarted(r) /\ (video.fileType # "video" \/ (run[r].extracted /\ ~run[r].force0)))
        => /\ run[r].status = "skipped"
           /\ run[r].reason # ""
           /\ ToolCalls(r) = {}
           /\ ~run[r].fsTouched
           /\ run[r].addCalls = 0

\* a video with a stream to extract, already linked by an earlier run, is
\* asked for again with extractedSubtitles in its metadata: the run has ended
C2_Witness ==
    \E r \in Runs :
        /\ IsDone(r)
        /\ video.fileType = "video"
        /\ run[r].extracted /\ ~run[r].force0
        /\ Len(TextSubs) > 0
        /\ store.extractedSubtitles # {}
        /\ run[r].before # {}

C4_ImageNeverSubripAlways ==
    \A r \in Runs :
        /\ \A k \in ToolCalls(r) : TextSubs[k].codec \notin UNSUPPORTED_SUBTITLE_CODECS
        /\ run[r].status = "completed" =>
             \A j \in 1..Len(Parsed) :
                 Parsed[j].codec = "subrip" =>
                     \E k \in 1..Len(TextSubs) :
                         /\ TextSubs[k] = Parsed[j]
                         /\ run[r].fate[k] # "pending"
                         /\ k \in run[r].seen \/ k \in ToolCalls(r)

\* a completed run for a video with an image-based stream and a subrip stream
\* whose output was not there: the tool was run for the subrip stream alone
C4_Witness ==
    \E r \in Runs :
        /\ run[r].status = "completed"
        /\ Len(Parsed) = 2
        /\ Parsed[1].codec = "hdmv_pgs_subtitle"
        /\ Parsed[2].codec = "subrip"
        /\ run[r].seen = {}
        /\ ToolCalls(r) = {1}

\* C5: a stream whose codec is in neither the allow-list of CODEC_EXTENSION_MAP
\* nor the image-based list (the placeholder 'unknown' included) is never
\* passed to the tool
C5_UnlistedCodecNeverExtracted ==
    \A r \in Runs :
        \A k \in ToolCalls(r) :
            TextSubs[k].codec \in (CODEC_EXTENSION_MAP \cup UNSUPPORTED_SUBTITLE_CODECS)

\* C6 (state part): a run that entered the loop is never reported skipped or
\* failed, and when it is reported completed the loop has come to every stream
\* of textSubtitles: each was found on disk or passed to the tool
C6_EveryStreamReached ==
    \A r \in Runs :
        InLoopPhase(r) =>
            /\ run[r].status \in {"none", "completed"}
            /\ run[r].status = "completed" =>
                 /\ run[r].i = Len(TextSubs) + 1
                 /\ \A k \in 1..Len(TextSubs) :
                      /\ run[r].fate[k] # "pending"
                      /\ run[r].fate[k] \in {"reused", "reuse_cid_failed"} \/ k \in ToolCalls(r)

\* C6 (step part): the step in which a stream's link fails leaves every file
\* as it is
C6_LinkFailureKeepsFiles ==
    \A r \in Runs :
        (/\ run[r].pc \in {"await_add1", "await_add2"}
         /\ run'[r].pc = "loop"
         /\ run'[r].fate[run[r].i] = "link_failed")
        => fs' = fs

C8_TimeoutIsOwn ==
    \A r \in Runs : \A k \in 1..MaxStreams :
        /\ inv[r][k].st = "killed" => inv[r][k].settled
        /\ inv[r][k].by = "timeout" =>
             /\ ~inv[r][k].result
             /\ run[r].fate[k] \in {"pending", "extract_failed"}
             /\ run[r].i > k => run[r].fate[k] = "extract_failed"

\* C8 (step part): the timer that fires while its child is running kills it;
\* a settled promise keeps its outcome whatever event comes later
C8_SettlesOnce ==
    \A r \in Runs : \A k \in 1..MaxStreams :
        /\ (inv[r][k].st = "running" /\ inv'[r][k].by = "timeout" /\ ~inv[r][k].settled)
             => inv'[r][k].st = "killed"
        /\ inv[r][k].settled =>
             /\ inv'[r][k].settled
             /\ inv'[r][k].result = inv[r][k].result
             /\ inv'[r][k].by = inv[r][k].by

\* C8: an invocation still running when its timer fires is killed and its
\* stream fails, the run going on to the next stream; a timer touches no
\* invocation other than its own, and every invocation settles once
C8_TimeoutScopedToInvocation ==
    /\ []C8_TimeoutIsOwn
    /\ [][C8_SettlesOnce]_vars

\* the first stream was killed by its timer, the second one was extracted and
\* linked afterwards, and the run is reported completed
C8_Witness ==
    \E r \in Runs :
        /\ run[r].status = "completed"
        /\ Len(TextSubs) = 2
        /\ inv[r][1].by = "timeout"
        /\ inv[r][1].st = "closed"
        /\ inv[r][2].by = "accepted"
        /\ run[r].fate[2] = "linked"

\* C9: an extraction succeeds only when the tool's output was accepted, and
\* after any other outcome no file is left at the stream's output path
C9_FailedLeavesNoFile ==
    \A r \in Runs : \A k \in 1..MaxStreams :
        /\ (inv[r][k].settled /\ inv[r][k].result) => inv[r][k].by = "accepted"
        /\ (inv[r][k].st = "closed" /\ ~inv[r][k].result)
             => fs[ToolPath(r, k)] = NoFile

\* the runs q other than r1 and r2 never invoked the tool
OnlyToolUsers(r1, r2) == \A q \in Runs \ {r1, r2} : ToolCalls(q) = {}

\* run r saw forceRecompute false at each of its checks and one format f
Unforced(r, f) ==
    /\ ~run[r].force0
    /\ run[r].forceSeen = {FALSE}
    /\ run[r].fmtSeen = {f}

\* r2 repeats r1: r1 ended before r2 began, every stream of r1 gave a CID
\* (extracted and linked, or found on disk), both ran unforced with the same
\* format, r2 went through the loop and computed the CID of every file it found
IsRerun(r1, r2) ==
    /\ r1 # r2
    /\ r1 \in run[r2].before
    /\ run[r1].status = "completed"
    /\ \A k \in 1..Len(TextSubs) : run[r1].fate[k] \in {"linked", "reused"}
    /\ \E f \in Formats : Unforced(r1, f) /\ Unforced(r2, f)
    /\ IsDone(r2)
    /\ run[r2].status = "completed"
    /\ \A k \in 1..Len(TextSubs) : run[r2].fate[k] # "reuse_cid_failed"
    /\ OnlyToolUsers(r1, r2)

\* C10 (state part): a stream found on disk with forceRecompute off has no
\* invocation of the tool; and a rerun invokes the tool for no stream and
\* computes the same set of CIDs as the run it repeats
C10_ReuseAndRerun ==
    /\ \A r \in Runs : \A k \in 1..Len(run[r].fate) :
         run[r].fate[k] \in {"reused", "reuse_cid_failed"} => k \notin ToolCalls(r)
    /\ \A r1, r2 \in Runs :
         IsRerun(r1, r2) =>
             /\ ToolCalls(r2) = {}
             /\ SeqRange(run[r2].extractedCids) = SeqRange(run[r1].extractedCids)

\* C10 (step part): the iteration that finds the file on disk with
\* forceRecompute off changes no file and starts no invocation
C10_ReuseKeepsFile ==
    \A r \in Runs :
        (/\ run[r].pc = "loop"
         /\ run[r].i <= Len(TextSubs)
         /\ run'[r].fate # run[r].fate
         /\ run'[r].fate[run[r].i] \in {"reused", "reuse_cid_failed"})
        => /\ fs' = fs
           /\ inv' = inv
           /\ fs[PathOf(run[r].i, outputFormat)] # NoFile
           /\ ~forceRecompute

\* C10: with forceRecompute off a stream whose output file is there is not
\* passed to the tool and the file stays as it is; so a rerun (same video and
\* streams, same format, forceRecompute off, not short-circuited, no other run
\* extracting, CIDs computed) invokes the tool for no stream and gives the set
\* of CIDs of the run it repeats
C10_ExistingOutputReused ==
    /\ []C10_ReuseAndRerun
    /\ [][C10_ReuseKeepsFile]_vars

\* a rerun has ended having found every file of the first run
C10_Witness ==
    \E r1, r2 \in Runs :
        /\ IsRerun(r1, r2)
        /\ Len(TextSubs) > 0
        /\ run[r2].extractedCids # << >>
        /\ \A k \in 1..Len(TextSubs) : run[r1].fate[k] = "linked"

\* every addToSet the run issued was accepted by the metadata store
StoreAccepted(r) == \A k \in 1..Len(run[r].fate) : run[r].fate[k] # "link_failed"

\* C11: when a run has ended completed and the store accepted its writes,
\* extractedSubtitles holds the CID of every finished artifact the run handled,
\* extracted by it or found on disk, and subtitleLanguages the language of each
\* such stream that has one
C11_CompletedRunLinksEveryArtifact ==
    \A r \in Runs :
        (IsDone(r) /\ run[r].status = "completed" /\ StoreAccepted(r)) =>
            LET cids == SeqRange(run[r].extractedCids)
                valid == { c \in cids : c.cidOf.kind = "good" }
            IN  /\ valid \subseteq store.extractedSubtitles
                /\ valid = cids =>
                     SeqRange(run[r].extractedLanguages) \subseteq store.subtitleLanguages

\* run r saw forceRecompute true at each of its checks and one format f
Forced(r, f) ==
    /\ run[r].force0
    /\ run[r].forceSeen = {TRUE}
    /\ run[r].fmtSeen = {f}

\* r2 repeats r1 with forceRecompute on in both: r1 ended before r2 began with
\* every stream extracted and linked, and r2 has ended
IsForcedRerun(r1, r2) ==
    /\ r1 # r2
    /\ r1 \in run[r2].before
    /\ run[r1].status = "completed"
    /\ \A k \in 1..Len(TextSubs) : run[r1].fate[k] = "linked"
    /\ \E f \in Formats : Forced(r1, f) /\ Forced(r2, f)
    /\ IsDone(r2)
    /\ run[r2].status = "completed"
    /\ OnlyToolUsers(r1, r2)

\* C12: a second run with forceRecompute on, for a video whose files are there
\* from a first such run, leaves every file with the bytes of the first run and
\* records the CIDs the first run recorded
C12_ForcedRerunKeepsArtifacts ==
    \A r1, r2 \in Runs :
        IsForcedRerun(r1, r2) =>
            /\ SeqRange(run[r2].extractedCids) = SeqRange(run[r1].extractedCids)
            /\ \A k \in 1..Len(TextSubs) : \A f \in run[r1].fmtSeen :
                 SubtitleCid(fs[PathOf(k, f)]) \in SeqRange(run[r1].extractedCids)

\* C13 (state part): forceRecompute is false until /configure sets it, and a
\* /configure body without forceRecompute true leaves it false; a run started
\* with forceRecompute on is not skipped as already extracted, and one started
\* with it off for a video recorded as extracted is; a run that saw
\* forceRecompute on at every stream passed every stream it came to to the
\* tool, the ones whose file was there included
C13_ForceGovernsShortCircuits ==
    /\ nConfigured = 0 => ~forceRecompute
    /\ outputFormat = "vtt" => ~forceRecompute
    /\ \A r \in Runs :
         /\ (IsStarted(r) /\ run[r].force0) =>
               run[r].reason # "Subtitles already extracted"
         /\ (IsStarted(r) /\ ~run[r].force0 /\ run[r].extracted
               /\ video.fileType = "video") =>
               run[r].reason = "Subtitles already extracted"
         /\ run[r].forceSeen = {TRUE} =>
               \A k \in 1..Len(run[r].fate) :
                   (run[r].fate[k] # "pending" \/ k \in run[r].seen) => k \in ToolCalls(r)

\* C13 (step part): the iteration of the loop made with forceRecompute on
\* starts an invocation of the tool whether or not the file is there; made
\* with forceRecompute off and the file there it starts none
C13_ForceAtExistsCheck ==
    \A r \in Runs :
        (/\ active = {r}
         /\ run[r].pc = "loop"
         /\ run[r].i <= Len(TextSubs)
         /\ run'[r] # run[r])
        => /\ forceRecompute =>
                /\ inv[r][run[r].i].st = "none"
                /\ inv'[r][run[r].i].st # "none"
           /\ (~forceRecompute /\ fs[PathOf(run[r].i, outputFormat)] # NoFile) =>
                inv' = inv

\* C13: forceRecompute on bypasses the already-extracted skip and the
\* already-exists check of every stream; off (the default, and what a
\* /configure without forceRecompute true gives) it bypasses neither
C13_ForceBypassesBoth ==
    /\ []C13_ForceGovernsShortCircuits
    /\ [][C13_ForceAtExistsCheck]_vars

\* a forced run for a video recorded as extracted has ended, having passed to
\* the tool a stream whose file was there
C13_Witness ==
    \E r \in Runs :
        /\ IsDone(r)
        /\ run[r].force0
        /\ run[r].extracted
        /\ run[r].forceSeen = {TRUE}
        /\ \E k \in run[r].seen : k \in ToolCalls(r) /\ run[r].fate[k] = "linked"

\* C14 (state part): adding a value the set of a field already holds leaves
\* the store as it is
C14_ReAddIsNoOp ==
    /\ \A c \in store.extractedSubtitles :
         StoreCall(store, "extractedSubtitles", c) = store
    /\ \A l \in store.subtitleLanguages :
         StoreCall(store, "subtitleLanguages", l) = store

\* C14 (step part): no step takes a member out of extractedSubtitles or
\* subtitleLanguages, and the store changes only where an awaited addToSet of
\* a run settles, by one value joining one of the two sets
C14_SetsGrowByAdds ==
    /\ store.extractedSubtitles \subseteq store'.extractedSubtitles
    /\ store.subtitleLanguages \subseteq store'.subtitleLanguages
    /\ store' # store =>
         \E r \in Runs :
            \/ /\ run[r].pc = "await_add1"
               /\ store'.subtitleLanguages = store.subtitleLanguages
               /\ store'.extractedSubtitles =
                    store.extractedSubtitles
                      \cup {run[r].extractedCids[Len(run[r].extractedCids)]}
            \/ /\ run[r].pc = "await_add2"
               /\ store'.extractedSubtitles = store.extractedSubtitles
               /\ store'.subtitleLanguages =
                    store.subtitleLanguages \cup {Sub(r).language}

\* C14: across every interleaving of runs, configurations and failures the two
\* sets of the video only grow, by addToSet alone, and re-adding a member
\* changes nothing
C14_StoreOnlyGrows ==
    /\ []C14_ReAddIsNoOp
    /\ [][C14_SetsGrowByAdds]_vars

\* the store holds the CIDs of two streams and a language, linked by one run
C14_Witness ==
    \E r \in Runs :
        /\ Cardinality(store.extractedSubtitles) = 2
        /\ store.subtitleLanguages # {}
        /\ Len(TextSubs) = 2
        /\ run[r].fate[1] = "linked"
        /\ run[r].fate[2] = "linked"

\* the outcomes the tool has for the subtitle streams of the video, fixed per
\* stream: an accepted file, or no start
ToolResults == [0..(MaxStreams - 1) -> BOOLEAN]

\* the per-stream loop of process() run to its end over the streams subs in
\* the order given, from the files and the store of st, with the tool
\* answering for each stream as results says and the store accepting
RECURSIVE RunLoop(_, _, _, _, _, _)
RunLoop(subs, k, st, results, force, format) ==
    IF k > Len(subs) THEN st
    ELSE LET sub == subs[k]
             p == OutputPath(sub, format)
             made == GoodFile(sub.index, OutputCodec(format))
             linked == StoreCall(st.store, "extractedSubtitles", SubtitleCid(made))
         IN  IF ReuseExisting(st.fs[p] # NoFile, force)
             THEN RunLoop(subs, k + 1, st, results, force, format)
             ELSE IF results[sub.index]
                  THEN RunLoop(subs, k + 1,
                         [fs |-> [st.fs EXCEPT ![p] = made],
                          store |-> IF sub.language # NoLang
                                    THEN StoreCall(linked, "subtitleLanguages", sub.language)
                                    ELSE linked],
                         results, force, format)
                  ELSE RunLoop(subs, k + 1, st, results, force, format)

\* the orders in which the streams of a list can be taken
OrdersOf(subs) ==
    { [j \in 1..Len(subs) |-> subs[f[j]]] : f \in Permutations(1..Len(subs)) }

\* C15: for the streams of the video and fixed tool results per stream, the
\* files on disk and the two sets of the store after the loop are the same
\* whatever the order in which the streams are processed, streams with the
\* same language tag included
C15_OrderIndependent ==
    \A results \in ToolResults : \A order \in OrdersOf(TextSubs) :
        RunLoop(order, 1, [fs |-> fs, store |-> store], results,
                forceRecompute, outputFormat)
          = RunLoop(TextSubs, 1, [fs |-> fs, store |-> store], results,
                    forceRecompute, outputFormat)

\* C16: the streams of one run are all extracted with one output format, for
\* the extension and for the codec given to the tool, and the forceRecompute
\* the run read when it started is the one it reads at every stream, also
\* when /configure is handled while the run awaits the tool or the store
C16_ConfigStableWithinRun ==
    \A r \in Runs :
        /\ Cardinality(run[r].fmtSeen) <= 1
        /\ \A k1, k2 \in ToolCalls(r) :
             /\ inv[r][k1].ext = inv[r][k2].ext
             /\ ToolCodec(r, k1) = ToolCodec(r, k2)
        /\ run[r].forceSeen \subseteq {run[r].force0}

\* C17: the streams parseSubtitleStreams returns for the metadata of the video
\* carry the indices 0, 1, ..., n-1 in that order, from the structured list as
\* from the individually keyed fields, a missing subtitle_<i>_codec before a
\* present one included
C17_IndicesContiguous ==
    \A j \in 1..Len(Parsed) : Parsed[j].index = j - 1

\* C18: when the structured list is there and parses, the result is the one
\* of that list alone, whatever individually keyed fields the bag has; the
\* scan of the keyed fields goes no further than index 19 and returns nothing
\* beyond the first index without a codec field
C18_FallbackOnlyWithoutList ==
    /\ video.hasStreams => Parsed = ParseStructured(video.streams, 1, << >>)
    /\ ~video.hasStreams =>
         \A j \in 1..Len(Parsed) :
             /\ Parsed[j].index < FallbackCap
             /\ \A i \in 0..Parsed[j].index : video.fields[i + 1].codec # ""

\* ------------------------------------------- pure functions traced by themselves
\* longest title, in characters
MaxTitleLen == 5

\* /[<>:"/\\|?*]/
ForbiddenChars == {"<", ">", ":", "\"", "/", "\\", "|", "?", "*"}
\* \s, as far as the titles of the model go
WhitespaceChars == {" ", "\t"}
\* the characters of the titles: a letter, two kinds of whitespace, one of the
\* characters that are removed
TitleChars == {"a", " ", "\t", ":"}
\* strings are sequences of characters; "" is the empty sequence
Titles == SeqsUpTo(TitleChars, MaxTitleLen)

\* .replace(/[<>:"/\\|?*]/g, '')
StripForbidden(name) == SelectSeq(name, LAMBDA c : c \notin ForbiddenChars)

\* .replace(/\s+/g, ' '): every maximal run of whitespace becomes one space
RECURSIVE CollapseWhitespace(_, _, _)
CollapseWhitespace(name, k, acc) ==
    IF k > Len(name) THEN acc
    ELSE IF name[k] \in WhitespaceChars
         THEN IF k > 1 /\ name[k - 1] \in WhitespaceChars
              THEN CollapseWhitespace(name, k + 1, acc)
              ELSE CollapseWhitespace(name, k + 1, Append(acc, " "))
         ELSE CollapseWhitespace(name, k + 1, Append(acc, name[k]))

\* .trim()
RECURSIVE Trim(_)
Trim(name) ==
    IF name = << >> THEN name
    ELSE IF name[1] \in WhitespaceChars THEN Trim(Tail(name))
    ELSE IF name[Len(name)] \in WhitespaceChars THEN Trim(SubSeq(name, 1, Len(name) - 1))
    ELSE name

sanitizeFilenameCollapseFirst(name) ==
    Trim(StripForbidden(CollapseWhitespace(name, 1, << >>)))
sanitizeFilename(name) ==
    Trim(CollapseWhitespace(StripForbidden(name), 1, << >>))

\* the metadata the filename is built from; "" and << >> are missing values
NameMetas ==
    [originalTitle : Titles, title : {<< >>, <<"b">>}, fileName : {<< >>, <<"c">>},
     movieYear : {"", "1999"}]

\* the streams a filename is built for: with a language, and without
NameSubs ==
    { [index |-> 0, codec |-> "subrip", language |-> "eng"],
      [index |-> 1, codec |-> "subrip", language |-> NoLang] }

\* existingMeta?.originalTitle || existingMeta?.title || existingMeta?.fileName || 'video'
TitleOf(meta) ==
    IF meta.originalTitle # << >> THEN meta.originalTitle
    ELSE IF meta.title # << >> THEN meta.title
    ELSE IF meta.fileName # << >> THEN meta.fileName
    ELSE <<"v", "i", "d", "e", "o">>

\* `${safeTitle}${yearStr}[${cid}]_subtitle${langSuffix}.${ext}`, the parts
\* after the title as one element each
OutputFilename(meta, cid, sub, ext) ==
    LET safeTitle == sanitizeFilename(TitleOf(meta))
        yearStr == IF meta.movieYear # "" THEN <<" (", meta.movieYear, ")">> ELSE << >>
        langSuffix == <<".", OutputPath(sub, ext).suffix>>
    IN  safeTitle \o yearStr \o <<"[", cid, "]", "_subtitle">> \o langSuffix \o <<".", ext>>

\* SAMPLE_SIZE is 1024 * 1024 in the source; the files of the model are a few
\* bytes long and the threshold is taken as small, the arithmetic of the
\* window being the same
SAMPLE_SIZE == 2
\* longest file, in bytes
MaxFileLen == 5
\* the values of a byte in the files of the model
FileBytes == {0, 1}
Files == SeqsUpTo(FileBytes, MaxFileLen)

\* sizeBuffer.writeBigUInt64BE(BigInt(fileSize), 0)
RECURSIVE ShiftRightBytes(_, _)
ShiftRightBytes(n, bytes) == IF bytes = 0 THEN n ELSE ShiftRightBytes(n \div 256, bytes - 1)
SizeBuffer(fileSize) == [j \in 1..8 |-> ShiftRightBytes(fileSize, 8 - j) % 256]

\* Math.floor((fileSize - SAMPLE_SIZE) / 2)
MiddleOffsetHead(fileSize) == 0
MiddleOffset(fileSize) == (fileSize - SAMPLE_SIZE) \div 2

\* sampleData: the whole file, or SAMPLE_SIZE bytes read at middleOffset
SampleData(file) ==
    IF Len(file) <= SAMPLE_SIZE THEN file
    ELSE SubSeq(file, MiddleOffset(Len(file)) + 1, MiddleOffset(Len(file)) + SAMPLE_SIZE)

\* Buffer.concat([sizeBuffer, sampleData])
HashInputSampleOnly(file) == SampleData(file)
HashInput(file) == SizeBuffer(Len(file)) \o SampleData(file)

\* the identifier: the encoding of a digest that is a function of hashInput
\* alone
MidHash(file) == [sha256 |-> HashInput(file)]

\* the calls traced: the building of an output filename, and the identifiers
\* of two files
NameCalls ==
    { [fn |-> "outputFilename", meta |-> m, sub |-> s, ext |-> e, rets |-> << >>] :
        m \in NameMetas, s \in NameSubs, e \in Formats }
HashCalls ==
    { [fn |-> "computeMidHash256Sync", files |-> pair, rets |-> << >>] :
        pair \in Files \X Files }

\* ------------------------------------------------- the base32 loop of the CID
\* longest byte sequence encoded, apart from the CID structure
MaxEncLen == 5
\* the length of the SHA-256 digest, the 0x20 of the multihash header
DigestLen == 32
\* the values of a byte in the sequences encoded
EncBytes == {0, 165, 255}

\* 'abcdefghijklmnopqrstuvwxyz234567'
Base32Chars ==
    <<"a", "b", "c", "d", "e", "f", "g", "h", "i", "j", "k", "l", "m", "n", "o", "p",
      "q", "r", "s", "t", "u", "v", "w", "x", "y", "z", "2", "3", "4", "5", "6", "7">>

\* Buffer.concat([[0x01], MIDHASH_VARINT, MIDHASH_VARINT, [0x20], hashBuffer])
CidBytes(hashBuffer) == <<1, 128, 32, 128, 32, 32>> \o hashBuffer

\* the digests the CID structure is built from: one byte repeated, and two
\* bytes in turn
Digests ==
    { [j \in 1..DigestLen |-> IF j % 2 = 1 THEN x ELSE y] : x \in EncBytes, y \in EncBytes }

\* the byte sequences given to the loop
EncInputs == SeqsUpTo(EncBytes, MaxEncLen) \cup { CidBytes(h) : h \in Digests }

\* (value << 8) | byte on 32-bit signed integers: the low 24 bits of value move
\* up, what was above them is lost, bit 31 is the sign
ShiftInByteSaturating(value, byte) ==
    IF value >= 8388608 THEN 2147483647 ELSE value * 256 + byte
ShiftInByte(value, byte) ==
    LET low24 == value % 16777216
    IN  IF low24 >= 8388608 THEN (low24 - 16777216) * 256 + byte
        ELSE low24 * 256 + byte

\* (value >> bits) & 0x1f
SymbolAt(value, bits) == (value \div (2 ^ bits)) % 32

\* (value << (5 - bits)) & 0x1f
TailSymbol(value, bits) == ((value % 32) * (2 ^ (5 - bits))) % 32

\* while (bits >= 5) { bits -= 5; cid += base32Chars[(value >> bits) & 0x1f]; }
RECURSIVE EmitSymbols(_, _, _)
EmitSymbols(cid, value, bits) ==
    IF bits >= 5
    THEN EmitSymbols(Append(cid, Base32Chars[SymbolAt(value, bits - 5) + 1]), value, bits - 5)
    ELSE [cid |-> cid, bits |-> bits]

\* the loop is about to start: cid = 'b', bits = 0, value = 0
EncCalls ==
    { [fn |-> "base32", bytes |-> s, k |-> 0, value |-> 0, bits |-> 0,
       cid |-> <<"b">>, done |-> FALSE] : s \in EncInputs }

\* one iteration of for (const byte of cidBytes)
EncodeByte ==
    /\ call.fn = "base32"
    /\ call.k < Len(call.bytes)
    /\ LET value == ShiftInByte(call.value, call.bytes[call.k + 1])
           emitted == EmitSymbols(call.cid, value, call.bits + 8)
       IN  call' = [call EXCEPT !.k = @ + 1, !.value = value,
                                !.bits = emitted.bits, !.cid = emitted.cid]
    /\ UNCHANGED <<forceRecompute, outputFormat, nConfigured, video, fs, store, run, inv, active>>

\* if (bits > 0) cid += base32Chars[(value << (5 - bits)) & 0x1f]; return cid
EncodeTail ==
    /\ call.fn = "base32"
    /\ call.k = Len(call.bytes)
    /\ ~call.done
    /\ call' = [call EXCEPT !.done = TRUE,
                            !.cid = IF call.bits > 0
                                    THEN Append(@, Base32Chars[TailSymbol(call.value, call.bits) + 1])
                                    ELSE @]
    /\ UNCHANGED <<forceRecompute, outputFormat, nConfigured, video, fs, store, run, inv, active>>

\* the server is idle, with a source that is no video and no files; one call
\* is to be made
FnInit ==
    /\ forceRecompute = FALSE
    /\ outputFormat = "srt"
    /\ nConfigured = 0
    /\ video = [fileType |-> "other", hasStreams |-> TRUE, streams |-> << >>, fields |-> << >>]
    /\ fs = [p \in Paths |-> NoFile]
    /\ store = [extractedSubtitles |-> {}, subtitleLanguages |-> {}]
    /\ run = [r \in Runs |-> IdleRun]
    /\ inv = [r \in Runs |-> [k \in 1..MaxStreams |-> NoInv]]
    /\ active = {}
    /\ call \in NameCalls \cup HashCalls \cup EncCalls

\* the filename of process() is built for the metadata, stream and format
BuildFilename ==
    /\ call.fn = "outputFilename"
    /\ call.rets = << >>
    /\ call' = [call EXCEPT !.rets =
                  <<OutputFilename(call.meta, "cid", call.sub, call.ext)>>]
    /\ UNCHANGED <<forceRecompute, outputFormat, nConfigured, video, fs, store, run, inv, active>>

\* computeMidHash256Sync is applied to the next of the files
HashFile ==
    /\ call.fn = "computeMidHash256Sync"
    /\ Len(call.rets) < Len(call.files)
    /\ LET file == call.files[Len(call.rets) + 1]
       IN  call' = [call EXCEPT !.rets =
                      Append(@, [hashInput |-> HashInput(file), cid |-> MidHash(file)])]
    /\ UNCHANGED <<forceRecompute, outputFormat, nConfigured, video, fs, store, run, inv, active>>

FnNext == BuildFilename \/ HashFile \/ EncodeByte \/ EncodeTail

FnSpec == FnInit /\ [][FnNext]_vars

\* C19: the filename built for a stream is the sanitized title, " (year)" if
\* and only if a year is known, the video's CID in brackets, _subtitle, a dot
\* and the stream's language or, for want of one, its index, a dot and the
\* output format; the sanitized title has none of the characters
\* < > : " / \ | ? *, no two whitespace characters in a row and no whitespace
\* at either end, and keeps the other characters of the title in their order
C19_FilenameForm ==
    (call.fn = "outputFilename" /\ call.rets # << >>) =>
        LET name == call.rets[1]
            year == call.meta.movieYear
            rest == (IF year # "" THEN <<" (", year, ")">> ELSE << >>)
                    \o <<"[", "cid", "]", "_subtitle", ".",
                         IF call.sub.language # NoLang THEN call.sub.language
                         ELSE IndexStr(call.sub.index),
                         ".", call.ext>>
            n == Len(name) - Len(rest)
            safe == SubSeq(name, 1, n)
        IN  /\ n >= 0
            /\ SubSeq(name, n + 1, Len(name)) = rest
            /\ \A j \in 1..n : safe[j] \notin ForbiddenChars
            /\ \A j \in 1..(n - 1) :
                 ~(safe[j] \in WhitespaceChars /\ safe[j + 1] \in WhitespaceChars)
            /\ n > 0 => (safe[1] \notin WhitespaceChars /\ safe[n] \notin WhitespaceChars)
            /\ SelectSeq(safe, LAMBDA c : c \notin WhitespaceChars)
                 = SelectSeq(TitleOf(call.meta),
                             LAMBDA c : c \notin (WhitespaceChars \cup ForbiddenChars))

\* the filename was built for the title "a :<tab>a" with a year, for a stream
\* without a language
C19_Witness ==
    /\ call.fn = "outputFilename"
    /\ call.rets # << >>
    /\ call.meta.originalTitle = <<"a", " ", ":", "\t", "a">>
    /\ call.meta.movieYear # ""
    /\ call.sub.language = NoLang
    /\ SubSeq(call.rets[1], 1, 4) = <<"a", " ", "a", " (">>

\* C20: for a file longer than the threshold the digest input is the length
\* as 8 bytes followed by exactly the SAMPLE_SIZE bytes from offset
\* floor((L - SAMPLE_SIZE) / 2) on; of two files of one length, those that
\* agree within that window have the same identifier and those that differ
\* within it have different digest inputs; for a file no longer than the
\* threshold the sample is the whole file
C20_CenteredWindow ==
    (/\ call.fn = "computeMidHash256Sync"
     /\ Len(call.rets) = 2
     /\ Len(call.files[1]) = Len(call.files[2])) =>
        LET a == call.files[1]
            b == call.files[2]
            L == Len(a)
            off == (L - SAMPLE_SIZE) \div 2
            ha == call.rets[1].hashInput
            hb == call.rets[2].hashInput
            window == (off + 1)..(off + SAMPLE_SIZE)
        IN  /\ \A j \in 1..7 : ha[j] = 0
            /\ ha[8] = L
            /\ L > SAMPLE_SIZE =>
                 /\ Len(ha) = 8 + SAMPLE_SIZE
                 /\ \A j \in 1..SAMPLE_SIZE : ha[8 + j] = a[off + j]
                 /\ (\A j \in window : a[j] = b[j]) => call.rets[1].cid = call.rets[2].cid
                 /\ (\E j \in window : a[j] # b[j]) => ha # hb
            /\ L <= SAMPLE_SIZE => SubSeq(ha, 9, Len(ha)) = a

\* two files of the greatest length that differ in their first and last bytes
\* only have been given one identifier
C20_Witness ==
    /\ call.fn = "computeMidHash256Sync"
    /\ Len(call.rets) = 2
    /\ Len(call.files[1]) = MaxFileLen
    /\ Len(call.files[2]) = MaxFileLen
    /\ MaxFileLen > SAMPLE_SIZE + 1
    /\ call.files[1][1] # call.files[2][1]
    /\ call.files[1][MaxFileLen] # call.files[2][MaxFileLen]
    /\ call.rets[1].cid = call.rets[2].cid

\* C21: two files of different lengths have different digest inputs, also
\* when their samples are the same bytes; for files no longer than the
\* threshold the digest inputs are equal exactly when the files are, and a
\* file with one byte appended never has the digest input of the file itself
C21_LengthSeparates ==
    (call.fn = "computeMidHash256Sync" /\ Len(call.rets) = 2) =>
        LET a == call.files[1]
            b == call.files[2]
            ha == call.rets[1].hashInput
            hb == call.rets[2].hashInput
        IN  /\ Len(a) # Len(b) => ha # hb
            /\ (Len(a) <= SAMPLE_SIZE /\ Len(b) <= SAMPLE_SIZE) => (ha = hb <=> a = b)
            /\ (Len(b) = Len(a) + 1 /\ SubSeq(b, 1, Len(a)) = a) => ha # hb

\* two files longer than the threshold, of different lengths, whose samples
\* are the same bytes, have been given their digest inputs
C21_Witness ==
    /\ call.fn = "computeMidHash256Sync"
    /\ Len(call.rets) = 2
    /\ Len(call.files[1]) > SAMPLE_SIZE
    /\ Len(call.files[2]) > Len(call.files[1])
    /\ SampleData(call.files[1]) = SampleData(call.files[2])
    /\ call.rets[1].hashInput # call.rets[2].hashInput

\* the unpadded RFC 4648 encoding: the bytes as one string of bits, most
\* significant first, cut into groups of 5, the last filled with zeros
RefBit(bytes, i) ==
    IF i \div 8 < Len(bytes) THEN (bytes[i \div 8 + 1] \div (2 ^ (7 - (i % 8)))) % 2 ELSE 0
RefGroup(bytes, g) ==
    16 * RefBit(bytes, 5 * g) + 8 * RefBit(bytes, 5 * g + 1) + 4 * RefBit(bytes, 5 * g + 2)
      + 2 * RefBit(bytes, 5 * g + 3) + RefBit(bytes, 5 * g + 4)
RefBase32(bytes) ==
    [g \in 1..((8 * Len(bytes) + 4) \div 5) |-> Base32Chars[RefGroup(bytes, g - 1) + 1]]

\* C22: the loop, with its accumulator shifted under 32-bit wrap-around and
\* never masked, has emitted after every byte the symbols of the RFC 4648
\* lowercase unpadded encoding that the bytes read so far decide, and at its
\* end 'b' followed by exactly that encoding; for the 38 bytes of the CID
\* structure that is 'b' and 61 symbols
C22_Base32MatchesReference ==
    call.fn = "base32" =>
        LET ref == RefBase32(call.bytes)
        IN  /\ ~call.done =>
                 call.cid = <<"b">> \o SubSeq(ref, 1, (8 * call.k) \div 5)
            /\ call.done =>
                 /\ call.cid = <<"b">> \o ref
                 /\ Len(call.bytes) = DigestLen + 6 => Len(call.cid) = 62

\* the CID structure of a digest of 0xff bytes has been encoded, the
\* accumulator having wrapped to a negative value
C22_Witness ==
    /\ call.fn = "base32"
    /\ call.done
    /\ call.bytes = CidBytes([j \in 1..DigestLen |-> 255])
    /\ call.value < 0
    /\ Len(call.cid) = 62

\* C23: within one run no stream is found on disk at a path to which the run
\* had the tool write for another of its streams, and no two invocations of
\* the run write to one path
C23_StreamsHaveOwnPaths ==
    \A r \in Runs :
        /\ \A k \in 1..Len(run[r].fate) :
             run[r].fate[k] \in {"reused", "reuse_cid_failed"} =>
                 \A k2 \in ToolCalls(r) \ {k} : \A f \in run[r].fmtSeen :
                     ToolPath(r, k2) # PathOf(k, f)
        /\ \A k1, k2 \in ToolCalls(r) :
             k1 # k2 => ToolPath(r, k1) # ToolPath(r, k2)

\* C24: when the runs that invoked the tool had ended before run r began, a
\* file that r finds on disk at a path it did not write to itself, and
\* reports by its CID, was written by an invocation that was accepted (exit
\* code 0 and more than 10 bytes)
C24_ReusedFilesWereAccepted ==
    \A r \in Runs :
        (\A q \in Runs \ {r} : ToolCalls(q) # {} => q \in run[r].before) =>
            \A k \in 1..Len(run[r].fate) :
                (/\ run[r].fate[k] = "reused"
                 /\ \A k1 \in ToolCalls(r) : \A f \in run[r].fmtSeen :
                       ToolPath(r, k1) # PathOf(k, f)) =>
                    \E q \in Runs : \E k2 \in ToolCalls(q) :
                        /\ inv[q][k2].by = "accepted"
                        /\ \E f \in run[r].fmtSeen : ToolPath(q, k2) = PathOf(k, f)

\* C25: no two invocations of the tool that are running have the same output
\* path, whatever the interleaving of the requests
C25_OneWriterPerPath ==
    \A r1, r2 \in Runs : \A k1, k2 \in 1..MaxStreams :
        (/\ <<r1, k1>> # <<r2, k2>>
         /\ inv[r1][k1].st = "running"
         /\ inv[r2][k2].st = "running")
        => ToolPath(r1, k1) # ToolPath(r2, k2)

====
